---- MODULE Spec2Model ----
(***************************************************************************)
(* Model of generate_pdf.py: the two-language render pipeline             *)
(* (generate_pdf, find_free_port, run_server, the __main__ block) and the *)
(* page-count verifier (verify_pdf_page_count).                           *)
(*                                                                         *)
(* Environment faults that are modelled: source HTML absent, another      *)
(* process binding a port, browser launch failure, navigation timeout,    *)
(* readiness marker absent, exception in page.pdf, failure of open() or   *)
(* of write() on the output file, and for the verifier a missing file, a  *)
(* missing or failing pdfinfo and arbitrary pdfinfo output.               *)
(***************************************************************************)
EXTENDS Integers, Sequences, FiniteSets, TLC

\* ---------------------------------------------------------------- bounds
NumPorts == 3          \* size of the port range the OS hands out
TickMs == 1000         \* granularity of time in wait_for_selector
MaxOut == 7            \* length of the pdfinfo output, in symbols

\* ------------------------------------------------------ program constants
SelectorTimeoutMs == 5000

Languages == <<"en", "es">>
Langs == {"en", "es"}
Ports == 1..NumPorts
\* other processes leave one port for each language's server
MaxOtherPorts == NumPorts - Len(Languages)
\* symbols of the pdfinfo output; "Pages" stands for the word as a whole
Alphabet == {"Pages", ":", " ", "1", "2", "\n"}
ExpectedPages == {1, 2, 12}

VARIABLES
    html_exists,        \* polisense-A4.html exists in the working directory
    output_dir_exists,  \* the directory one-pager exists
    output_dir_before,  \* whether it existed when the script started
    pdf_file,           \* per language: content of the output file
    sockets,            \* per port: who has it bound
    pc,                 \* per language: position of generate_pdf
    port,               \* per language: value returned by find_free_port
    server_thread,      \* per language: state of the server thread
    server_started,     \* per language: the threading.Event
    browser,            \* per language: the chromium instance
    navigated,          \* per language: page.goto returned
    marker,             \* per language: body has class content-loaded
    waited,             \* per language: ms spent in wait_for_selector
    pdf_bytes,          \* per language: page.pdf returned the bytes
    success,            \* per language: en_success / es_success
    reported,           \* per language: the error printed, if any
    exit_code,          \* status given to sys.exit
    v_exists,           \* verifier: pdf_path.exists()
    v_tool,             \* verifier: how running pdfinfo ends
    stdout,             \* verifier: result.stdout, a sequence of symbols
    v_expected,         \* verifier: expected_pages of the last call
    v_result            \* verifier: return value of the last call

fsVars == <<html_exists, output_dir_exists, output_dir_before, pdf_file>>
genVars == <<pc, port, browser, navigated, marker, waited, pdf_bytes, success,
            reported>>
srvVars == <<server_thread, server_started>>
verVars == <<v_exists, v_tool, stdout, v_expected, v_result>>
vars == <<fsVars, sockets, genVars, srvVars, exit_code, verVars>>

\* ================================================================ helpers

\* except Exception: every failure raised inside the try block is an
\* Exception subclass and is turned into "return False"
Exceptions == {"LaunchError", "NavigationTimeout", "SelectorTimeout",
               "PdfError", "OpenError", "WriteError"}

\* variant: a failed write is not treated as a failure
ExceptResultWriteOk(exc) ==
    IF exc = "WriteError" THEN "True"
    ELSE IF exc \in Exceptions THEN "False" ELSE "Raised"

\* variant: the handler catches the two timeouts only
ExceptResultTimeoutOnly(exc) ==
    IF exc \in {"NavigationTimeout", "SelectorTimeout"} THEN "False" ELSE "Raised"

ExceptResult(exc) == IF exc \in Exceptions THEN "False" ELSE "Raised"

\* variant: the timeout ends the wait without raising
SelectorOutcomeNoRaise(m, w) ==
    IF m \/ w >= SelectorTimeoutMs THEN "found" ELSE "pending"

\* page.wait_for_selector('body.content-loaded', timeout=5000)
SelectorOutcome(m, w) ==
    IF m THEN "found"
    ELSE IF w >= SelectorTimeoutMs THEN "timeout"
    ELSE "pending"

\* if pdf_file.exists(): return True else: return False
ExistsResult(content) == IF content # "absent" THEN "True" ELSE "False"

\* variant: "or" in place of "and"
ExitStatusOr(en, es) == IF en = "True" \/ es = "True" THEN "0" ELSE "1"

\* sys.exit(0 if en_success and es_success else 1); an exception that
\* leaves asyncio.run ends the interpreter with status 1
ExitStatus(en, es) == IF en = "True" /\ es = "True" THEN "0" ELSE "1"

\* variant: the finally clause shuts the server down
FinallyShutdown(thread) == IF thread = "serving" THEN "stopped" ELSE thread

\* finally: pass -- the daemon server thread is left as it is
Finally(thread) == thread

OtherPorts == {p \in Ports : sockets[p] = "other"}

\* ================================================================== Init
Init ==
    /\ html_exists \in BOOLEAN
    /\ output_dir_exists \in BOOLEAN
    /\ output_dir_before = output_dir_exists
    /\ pdf_file \in [Langs -> {"absent", "old"}]
    /\ \A l \in Langs : pdf_file[l] = "old" => output_dir_exists
    /\ sockets = [p \in Ports |-> "free"]
    /\ pc = [l \in Langs |-> "idle"]
    /\ port = [l \in Langs |-> 0]
    /\ server_thread = [l \in Langs |-> "none"]
    /\ server_started = [l \in Langs |-> FALSE]
    /\ browser = [l \in Langs |-> "none"]
    /\ navigated = [l \in Langs |-> FALSE]
    /\ marker = [l \in Langs |-> FALSE]
    /\ waited = [l \in Langs |-> 0]
    /\ pdf_bytes = [l \in Langs |-> FALSE]
    /\ success = [l \in Langs |-> "None"]
    /\ reported = [l \in Langs |-> "none"]
    /\ exit_code = "running"
    /\ v_exists = FALSE
    /\ v_tool = "ok"
    /\ stdout = <<>>
    /\ v_expected = 0
    /\ v_result = "None"

\* ============================================================ generate_pdf

\* the except clause (with the finally clause) of generate_pdf
Raise(l, exc) ==
    /\ success' = [success EXCEPT ![l] = ExceptResult(exc)]
    /\ reported' = [reported EXCEPT ![l] = exc]
    /\ pc' = [pc EXCEPT ![l] = "done"]
    /\ browser' = [browser EXCEPT ![l] = IF @ = "open" THEN "closed" ELSE @]
    /\ server_thread' = [server_thread EXCEPT ![l] = Finally(@)]

\* __main__: asyncio.run(generate_pdf(language=...)), English first
Call(l) ==
    /\ pc[l] = "idle"
    /\ exit_code = "running"
    /\ l = "es" => (pc["en"] = "done" /\ success["en"] \in {"True", "False"})
    /\ pc' = [pc EXCEPT ![l] = "mkdir"]
    /\ UNCHANGED <<fsVars, sockets, port, browser, navigated, marker, waited,
                   pdf_bytes, success, reported, srvVars, exit_code, verVars>>

\* output_dir.mkdir(exist_ok=True)
Mkdir(l) ==
    /\ pc[l] = "mkdir"
    /\ output_dir_exists' = TRUE
    /\ pc' = [pc EXCEPT ![l] = "check"]
    /\ UNCHANGED <<html_exists, output_dir_before, pdf_file, sockets, port,
                   browser, navigated, marker, waited, pdf_bytes, success,
                   reported, srvVars, exit_code, verVars>>

\* variant: the check reports nothing and generation goes on
CheckHtmlNoReturn(l) ==
    /\ pc[l] = "check"
    /\ pc' = [pc EXCEPT ![l] = "find_port"]
    /\ UNCHANGED <<fsVars, sockets, port, browser, navigated, marker, waited,
                   pdf_bytes, success, reported, srvVars, exit_code, verVars>>

\* if not html_file.exists(): return False
CheckHtml(l) ==
    /\ pc[l] = "check"
    /\ IF html_exists
       THEN /\ pc' = [pc EXCEPT ![l] = "find_port"]
            /\ UNCHANGED <<success, reported>>
       ELSE /\ pc' = [pc EXCEPT ![l] = "done"]
            /\ success' = [success EXCEPT ![l] = "False"]
            /\ reported' = [reported EXCEPT ![l] = "NotFound"]
    /\ UNCHANGED <<fsVars, sockets, port, browser, navigated, marker, waited,
                   pdf_bytes, srvVars, exit_code, verVars>>

\* port = find_free_port(): bind port 0, read the port, close the socket
find_free_port(l) ==
    /\ pc[l] = "find_port"
    /\ \E p \in Ports :
         /\ sockets[p] = "free"
         /\ port' = [port EXCEPT ![l] = p]
    /\ pc' = [pc EXCEPT ![l] = "start_thread"]
    /\ UNCHANGED <<fsVars, sockets, browser, navigated, marker, waited,
                   pdf_bytes, success, reported, srvVars, exit_code, verVars>>

\* server_thread = threading.Thread(...); server_thread.start()
StartThread(l) ==
    /\ pc[l] = "start_thread"
    /\ server_thread' = [server_thread EXCEPT ![l] = "started"]
    /\ pc' = [pc EXCEPT ![l] = "wait"]
    /\ UNCHANGED <<fsVars, sockets, port, browser, navigated, marker, waited,
                   pdf_bytes, success, reported,
                   server_started, exit_code, verVars>>

\* server_started.wait(): no timeout
WaitStarted(l) ==
    /\ pc[l] = "wait"
    /\ server_started[l]
    /\ pc' = [pc EXCEPT ![l] = "launch"]
    /\ UNCHANGED <<fsVars, sockets, port, browser, navigated, marker, waited,
                   pdf_bytes, success, reported, srvVars, exit_code, verVars>>

\* browser = await p.chromium.launch(); page = await browser.new_page()
Launch(l) ==
    /\ pc[l] = "launch"
    /\ \/ /\ browser' = [browser EXCEPT ![l] = "open"]
          /\ pc' = [pc EXCEPT ![l] = "goto"]
          /\ UNCHANGED <<success, reported, server_thread>>
       \/ Raise(l, "LaunchError")
    /\ UNCHANGED <<fsVars, sockets, port, navigated, marker, waited,
                   pdf_bytes, server_started, exit_code, verVars>>

\* await page.goto(url, wait_until="networkidle")
Goto(l) ==
    /\ pc[l] = "goto"
    /\ \/ /\ navigated' = [navigated EXCEPT ![l] = TRUE]
          /\ \E m \in BOOLEAN : marker' = [marker EXCEPT ![l] = m]
          /\ pc' = [pc EXCEPT ![l] = "selector"]
          /\ UNCHANGED <<success, reported, server_thread, browser>>
       \/ /\ Raise(l, "NavigationTimeout")
          /\ UNCHANGED <<navigated, marker>>
    /\ UNCHANGED <<fsVars, sockets, port, waited, pdf_bytes, server_started,
                   exit_code, verVars>>

\* the page's script finishes localisation and sets body.content-loaded
PageSetsMarker(l) ==
    /\ pc[l] = "selector"
    /\ ~marker[l]
    /\ marker' = [marker EXCEPT ![l] = TRUE]
    /\ UNCHANGED <<fsVars, sockets, pc, port, browser, navigated, waited,
                   pdf_bytes, success, reported, srvVars, exit_code, verVars>>

\* time passes while wait_for_selector polls
Tick(l) ==
    /\ pc[l] = "selector"
    /\ SelectorOutcome(marker[l], waited[l]) = "pending"
    /\ waited' = [waited EXCEPT ![l] = @ + TickMs]
    /\ UNCHANGED <<fsVars, sockets, pc, port, browser, navigated, marker,
                   pdf_bytes, success, reported, srvVars, exit_code, verVars>>

\* await page.wait_for_selector('body.content-loaded', timeout=5000)
WaitForSelector(l) ==
    /\ pc[l] = "selector"
    /\ LET o == SelectorOutcome(marker[l], waited[l]) IN
         /\ o # "pending"
         /\ IF o = "found"
            THEN /\ pc' = [pc EXCEPT ![l] = "pdf"]
                 /\ UNCHANGED <<success, reported, server_thread, browser>>
            ELSE Raise(l, "SelectorTimeout")
    /\ UNCHANGED <<fsVars, sockets, port, navigated, marker, waited,
                   pdf_bytes, server_started, exit_code, verVars>>

\* pdf_bytes = await page.pdf(...)
Pdf(l) ==
    /\ pc[l] = "pdf"
    /\ \/ /\ pdf_bytes' = [pdf_bytes EXCEPT ![l] = TRUE]
          /\ pc' = [pc EXCEPT ![l] = "close"]
          /\ UNCHANGED <<success, reported, server_thread, browser>>
       \/ /\ Raise(l, "PdfError")
          /\ UNCHANGED pdf_bytes
    /\ UNCHANGED <<fsVars, sockets, port, navigated, marker, waited,
                   server_started, exit_code, verVars>>

\* await browser.close()
CloseBrowser(l) ==
    /\ pc[l] = "close"
    /\ browser' = [browser EXCEPT ![l] = "closed"]
    /\ pc' = [pc EXCEPT ![l] = "open"]
    /\ UNCHANGED <<fsVars, sockets, port, navigated, marker, waited,
                   pdf_bytes, success, reported, srvVars, exit_code, verVars>>

\* with open(pdf_file, "wb") as f: creates or truncates the file
OpenFile(l) ==
    /\ pc[l] = "open"
    /\ \/ /\ pdf_file' = [pdf_file EXCEPT ![l] = "empty"]
          /\ pc' = [pc EXCEPT ![l] = "write"]
          /\ UNCHANGED <<success, reported, server_thread, browser>>
       \/ /\ Raise(l, "OpenError")
          /\ UNCHANGED pdf_file
    /\ UNCHANGED <<html_exists, output_dir_exists, output_dir_before,
                   sockets, port, navigated, marker, waited, pdf_bytes,
                   server_started, exit_code, verVars>>

\* f.write(pdf_bytes): all the bytes, or an OSError after some of them
WriteFile(l) ==
    /\ pc[l] = "write"
    /\ \/ /\ pdf_file' = [pdf_file EXCEPT ![l] = "full"]
          /\ pc' = [pc EXCEPT ![l] = "exists"]
          /\ UNCHANGED <<success, reported, server_thread, browser>>
       \/ /\ pdf_file' = [pdf_file EXCEPT ![l] = "partial"]
          /\ Raise(l, "WriteError")
    /\ UNCHANGED <<html_exists, output_dir_exists, output_dir_before,
                   sockets, port, navigated, marker, waited, pdf_bytes,
                   server_started, exit_code, verVars>>

\* if pdf_file.exists(): return True / else: return False
CheckExists(l) ==
    /\ pc[l] = "exists"
    /\ success' = [success EXCEPT ![l] = ExistsResult(pdf_file[l])]
    /\ UNCHANGED reported
    /\ pc' = [pc EXCEPT ![l] = "done"]
    /\ server_thread' = [server_thread EXCEPT ![l] = Finally(@)]
    /\ UNCHANGED <<fsVars, sockets, port, browser, navigated, marker, waited,
                   pdf_bytes, server_started, exit_code, verVars>>

\* ============================================================== run_server

\* socketserver.TCPServer(("", port), handler): bind and listen, or OSError
\* when the port is in use, which ends the thread
ServerBind(l) ==
    /\ server_thread[l] = "started"
    /\ IF sockets[port[l]] = "free"
       THEN /\ sockets' = [sockets EXCEPT ![port[l]] = l]
            /\ server_thread' = [server_thread EXCEPT ![l] = "listening"]
       ELSE /\ server_thread' = [server_thread EXCEPT ![l] = "dead"]
            /\ UNCHANGED sockets
    /\ UNCHANGED <<fsVars, genVars, server_started, exit_code, verVars>>

\* server_started.set(); httpd.serve_forever()
ServerSet(l) ==
    /\ server_thread[l] = "listening"
    /\ server_started' = [server_started EXCEPT ![l] = TRUE]
    /\ server_thread' = [server_thread EXCEPT ![l] = "serving"]
    /\ UNCHANGED <<fsVars, sockets, genVars, exit_code, verVars>>

\* ========================================================= other processes
OtherBind(p) ==
    /\ exit_code = "running"
    /\ sockets[p] = "free"
    /\ Cardinality(OtherPorts) < MaxOtherPorts
    /\ sockets' = [sockets EXCEPT ![p] = "other"]
    /\ UNCHANGED <<fsVars, genVars, srvVars, exit_code, verVars>>

OtherRelease(p) ==
    /\ exit_code = "running"
    /\ sockets[p] = "other"
    /\ sockets' = [sockets EXCEPT ![p] = "free"]
    /\ UNCHANGED <<fsVars, genVars, srvVars, exit_code, verVars>>

\* ================================================== verify_pdf_page_count

\* str.splitlines()
RECURSIVE splitlines(_)
splitlines(s) ==
    IF s = <<>> THEN <<>>
    ELSE LET nl == {i \in 1..Len(s) : s[i] = "\n"} IN
         IF nl = {} THEN <<s>>
         ELSE LET i == CHOOSE j \in nl : \A k \in nl : j <= k IN
              <<SubSeq(s, 1, i - 1)>> \o splitlines(SubSeq(s, i + 1, Len(s)))

\* str.split(":")
RECURSIVE split(_)
split(s) ==
    LET c == {i \in 1..Len(s) : s[i] = ":"} IN
    IF c = {} THEN <<s>>
    ELSE LET i == CHOOSE j \in c : \A k \in c : j <= k IN
         <<SubSeq(s, 1, i - 1)>> \o split(SubSeq(s, i + 1, Len(s)))

\* str.strip()
RECURSIVE strip(_)
strip(s) ==
    IF s = <<>> THEN s
    ELSE IF Head(s) = " " THEN strip(Tail(s))
    ELSE IF s[Len(s)] = " " THEN strip(SubSeq(s, 1, Len(s) - 1))
    ELSE s

\* line.startswith("Pages:")
startswith(line) == Len(line) >= 2 /\ line[1] = "Pages" /\ line[2] = ":"

Digit(c) == IF c = "1" THEN 1 ELSE 2

\* int(): the value of a decimal string, surrounding whitespace allowed;
\* ValueError (IsInt false) for anything else
IsInt(s) ==
    LET t == strip(s) IN t # <<>> /\ \A i \in 1..Len(t) : t[i] \in {"1", "2"}

RECURSIVE int(_)
int(s) ==
    LET t == strip(s) IN
    IF t = <<>> THEN 0
    ELSE 10 * int(SubSeq(t, 1, Len(t) - 1)) + Digit(t[Len(t)])

\* the two except clauses of verify_pdf_page_count: both return False
VerifyExcept(exc) ==
    IF exc \in {"CalledProcessError", "FileNotFoundError"} THEN "False"
    ELSE "False"

\* variant: a Pages: line with another count does not end the scan
RECURSIVE ScanLinesAny(_, _)
ScanLinesAny(lines, expected_pages) ==
    IF lines = <<>> THEN "False"
    ELSE IF startswith(Head(lines))
            /\ IsInt(strip(split(Head(lines))[2]))
            /\ int(strip(split(Head(lines))[2])) = expected_pages
    THEN "True"
    ELSE ScanLinesAny(Tail(lines), expected_pages)

\* for line in result.stdout.splitlines(): ...
RECURSIVE ScanLines(_, _)
ScanLines(lines, expected_pages) ==
    IF lines = <<>> THEN "False"
    ELSE IF startswith(Head(lines))
    THEN LET field == strip(split(Head(lines))[2]) IN
         IF ~IsInt(field) THEN VerifyExcept("ValueError")
         ELSE IF int(field) = expected_pages THEN "True" ELSE "False"
    ELSE ScanLines(Tail(lines), expected_pages)

verify_pdf_page_count(exists, tool, out, expected_pages) ==
    IF ~exists THEN "False"
    ELSE IF tool = "missing" THEN VerifyExcept("FileNotFoundError")
    ELSE IF tool = "error" THEN VerifyExcept("CalledProcessError")
    ELSE ScanLines(splitlines(out), expected_pages)

\* pdfinfo writes its output
Emit(c) ==
    /\ v_exists /\ v_tool = "ok"
    /\ v_result = "None"
    /\ Len(stdout) < MaxOut
    /\ stdout' = Append(stdout, c)
    /\ UNCHANGED <<fsVars, sockets, genVars, srvVars, exit_code,
                   v_exists, v_tool, v_expected, v_result>>

Verify(e) ==
    /\ v_result = "None"
    /\ v_expected' = e
    /\ v_result' = verify_pdf_page_count(v_exists, v_tool, stdout, e)
    /\ UNCHANGED <<fsVars, sockets, genVars, srvVars, exit_code,
                   v_exists, v_tool, stdout>>

InitVerify ==
    /\ html_exists = TRUE
    /\ output_dir_exists = TRUE
    /\ output_dir_before = TRUE
    /\ pdf_file = [l \in Langs |-> "absent"]
    /\ sockets = [p \in Ports |-> "free"]
    /\ pc = [l \in Langs |-> "idle"]
    /\ port = [l \in Langs |-> 0]
    /\ server_thread = [l \in Langs |-> "none"]
    /\ server_started = [l \in Langs |-> FALSE]
    /\ browser = [l \in Langs |-> "none"]
    /\ navigated = [l \in Langs |-> FALSE]
    /\ marker = [l \in Langs |-> FALSE]
    /\ waited = [l \in Langs |-> 0]
    /\ pdf_bytes = [l \in Langs |-> FALSE]
    /\ success = [l \in Langs |-> "None"]
    /\ reported = [l \in Langs |-> "none"]
    /\ exit_code = "running"
    /\ v_exists \in BOOLEAN
    /\ v_tool \in {"ok", "missing", "error"}
    /\ stdout = <<>>
    /\ v_expected = 0
    /\ v_result = "None"

NextVerify == (\E c \in Alphabet : Emit(c)) \/ (\E e \in ExpectedPages : Verify(e))

SpecVerify == InitVerify /\ [][NextVerify]_vars

\* ================================================================ __main__
Exit ==
    /\ exit_code = "running"
    /\ \/ success["en"] = "Raised"
       \/ success["es"] # "None"
    /\ exit_code' = ExitStatus(success["en"], success["es"])
    /\ UNCHANGED <<fsVars, sockets, genVars, srvVars, verVars>>

MainStep ==
    \/ \E l \in Langs :
         \/ Call(l) \/ Mkdir(l) \/ CheckHtml(l) \/ find_free_port(l)
         \/ StartThread(l) \/ WaitStarted(l) \/ Launch(l) \/ Goto(l)
         \/ WaitForSelector(l) \/ Pdf(l) \/ CloseBrowser(l) \/ OpenFile(l)
         \/ WriteFile(l) \/ CheckExists(l)
    \/ Exit

run_server == \E l \in Langs : ServerBind(l) \/ ServerSet(l)

Clock == \E l \in Langs : Tick(l)

Page == \E l \in Langs : PageSetsMarker(l)

Others == \E p \in Ports : OtherBind(p) \/ OtherRelease(p)

Next == MainStep \/ run_server \/ Clock \/ Page \/ Others

Spec == Init /\ [][Next]_vars

\* the interpreter schedules the main thread and the server thread, and time
\* passes; nothing obliges the page or other processes to act
FairSpec == Spec /\ WF_vars(MainStep) /\ WF_vars(run_server) /\ WF_vars(Clock)

TypeOK ==
    /\ html_exists \in BOOLEAN
    /\ output_dir_exists \in BOOLEAN
    /\ pdf_file \in [Langs -> {"absent", "old", "empty", "partial", "full"}]
    /\ sockets \in [Ports -> {"free", "other"} \cup Langs]
    /\ port \in [Langs -> 0..NumPorts]
    /\ success \in [Langs -> {"None", "True", "False", "Raised"}]
    /\ exit_code \in {"running", "0", "1"}

\* ================================================================ claims

Returned(l) == pc[l] = "done"
AfterWait(l) == pc[l] \in {"launch", "goto", "selector", "pdf", "close",
                           "open", "write", "exists"}
                \/ (pc[l] = "done" /\ reported[l] # "NotFound")
Written(l) == pdf_file[l] \in {"empty", "partial", "full"}
Complete(l) == navigated[l] /\ marker[l] /\ pdf_bytes[l] /\ pdf_file[l] = "full"

\* C1: when the page never gets the readiness marker, the readiness wait
\* ends once the 5 s timeout has elapsed (never later), generate_pdf
\* returns False, and neither the PDF capture nor the write to the output
\* path happens in that invocation.
C1_MarkerTimeout ==
    /\ [](\A l \in Langs :
            /\ waited[l] < SelectorTimeoutMs + TickMs
            /\ (Returned(l) /\ navigated[l] /\ ~marker[l]) =>
                 /\ success[l] = "False"
                 /\ reported[l] = "SelectorTimeout"
                 /\ waited[l] >= SelectorTimeoutMs
                 /\ ~pdf_bytes[l]
                 /\ ~Written(l))
    /\ \A l \in Langs : (pc[l] = "selector") ~> (pc[l] # "selector")

C1_Witness ==
    /\ Returned("en") /\ navigated["en"] /\ ~marker["en"]
    /\ success["en"] = "False" /\ waited["en"] >= SelectorTimeoutMs

\* C2: generate_pdf returns True only if navigation, the readiness wait and
\* the PDF capture completed and all the bytes were written, so the output
\* file exists; a call in which a step up to the file write raised (a
\* write failing partway included) returns False.
C2_TrueOnlyIfWritten ==
    \A l \in Langs :
      /\ success[l] = "True" => (Complete(l) /\ reported[l] = "none")
      /\ (Returned(l) /\ reported[l] \in Exceptions) => success[l] = "False"
      /\ (Returned(l) /\ pdf_file[l] = "partial") => success[l] = "False"

C2_Witness ==
    /\ success["en"] = "True" /\ pdf_file["en"] = "full"
    /\ success["es"] = "False" /\ pdf_file["es"] = "partial"

C4_MissingSourceFailsFast ==
    ~html_exists =>
      \A l \in Langs :
        /\ pc[l] \in {"idle", "mkdir", "check", "done"}
        /\ Returned(l) => (success[l] = "False" /\ reported[l] = "NotFound")
        /\ port[l] = 0
        /\ server_thread[l] = "none"
        /\ browser[l] = "none"
        /\ ~Written(l)
        /\ \A p \in Ports : sockets[p] # l

C4_Witness ==
    ~html_exists /\ Returned("es") /\ success["es"] = "False" /\ pdf_file["es"] = "old"

\* C5: in every interleaving the port returned by find_free_port is still
\* free when run_server binds it (the bind never fails), and generate_pdf
\* gets past server_started.wait() only once the server socket is bound and
\* listening.
C5_PortFreeAtBind ==
    \A l \in Langs :
      /\ server_thread[l] # "dead"
      /\ AfterWait(l) =>
           (sockets[port[l]] = l /\ server_thread[l] \in {"listening", "serving"})

\* C6: every failure of a generation attempt (missing source, browser
\* launch failure, navigation timeout, missing marker, exception in the PDF
\* capture or the file write) becomes a False return and never leaves
\* generate_pdf as an exception, and after generate_pdf('en') has returned,
\* whatever its result, generate_pdf('es') is attempted.
C6_FailuresBecomeFalse ==
    /\ [](\A l \in Langs :
            /\ success[l] # "Raised"
            /\ (Returned(l) /\ reported[l] # "none") => success[l] = "False"
            /\ Returned(l) => success[l] \in {"True", "False"})
    /\ Returned("en") ~> (pc["es"] # "idle")

C6_Witness ==
    /\ Returned("en") /\ reported["en"] = "WriteError" /\ success["en"] = "False"
    /\ pc["es"] = "launch"

\* C7: a generate_pdf call that fails because the source HTML file is
\* absent leaves the file system (the directory one-pager included), the
\* threads and the bound ports as they were before the call.
C7_NoSideEffects ==
    \A l \in Langs :
      (Returned(l) /\ reported[l] = "NotFound") =>
        /\ output_dir_exists = output_dir_before
        /\ ~Written(l)
        /\ server_thread[l] = "none"
        /\ \A p \in Ports : sockets[p] # l

\* C9: every call to generate_pdf eventually returns, also when the server
\* thread fails to bind the chosen port.
C9_CallReturns == \A l \in Langs : (pc[l] = "mkdir") ~> Returned(l)

\* C10 (as stated): when generate_pdf('es') starts, generate_pdf('en') has
\* completed and no server thread and no bound port of the English
\* invocation is still live.
C10_ResourcesReleased ==
    pc["es"] # "idle" =>
      /\ Returned("en")
      /\ server_thread["en"] \notin {"started", "listening", "serving"}
      /\ \A p \in Ports : sockets[p] # "en"

\* C10 (amended): generate_pdf('es') does not start until generate_pdf('en')
\* has returned; the English invocation releases nothing on return: if it
\* started a server thread, that thread is still serving on its bound port
\* when the Spanish invocation starts and afterwards.
C10_SequentialNotReleased ==
    pc["es"] # "idle" =>
      /\ Returned("en") /\ success["en"] \in {"True", "False"}
      /\ port["en"] # 0 =>
           (server_thread["en"] = "serving" /\ sockets[port["en"]] = "en")

C10_Witness ==
    pc["es"] = "mkdir" /\ server_thread["en"] = "serving" /\ sockets[port["en"]] = "en"

\* ---- C8, stated on the raw output rather than through the code's parsing

\* the decimal numeral of n
RECURSIVE Numeral(_)
Numeral(n) ==
    LET d == IF n % 10 = 1 THEN "1" ELSE "2" IN
    IF n < 10 THEN <<d>> ELSE Append(Numeral(n \div 10), d)

\* positions of stdout at which a line begins with Pages:
PagesLineStarts ==
    {i \in 1..Len(stdout) :
       /\ i = 1 \/ stdout[i - 1] = "\n"
       /\ stdout[i] = "Pages"
       /\ i < Len(stdout) /\ stdout[i + 1] = ":"}

\* the count field of the line starting at i reads n: after Pages: come
\* blanks, the numeral of n, blanks, and then the line or the field ends
FieldReads(i, n) ==
    \E a \in (i + 2)..Len(stdout) : \E b \in a..Len(stdout) :
      /\ \A k \in (i + 2)..(a - 1) : stdout[k] = " "
      /\ SubSeq(stdout, a, b) = Numeral(n)
      /\ \E e \in (b + 1)..(Len(stdout) + 1) :
           /\ \A k \in (b + 1)..(e - 1) : stdout[k] = " "
           /\ e = Len(stdout) + 1 \/ stdout[e] \in {":", "\n"}

FirstPagesLineReads(n) ==
    /\ PagesLineStarts # {}
    /\ LET i == CHOOSE j \in PagesLineStarts : \A k \in PagesLineStarts : j <= k
       IN FieldReads(i, n)

\* C8: verify_pdf_page_count returns True exactly when the file exists,
\* pdfinfo ran successfully and the first Pages: line of its output gives an
\* integer equal to expected_pages; in every other case it returns False,
\* and it never raises.
C8_VerifierExact ==
    v_result # "None" =>
      /\ v_result \in {"True", "False"}
      /\ v_result = "True" <=>
           (v_exists /\ v_tool = "ok" /\ FirstPagesLineReads(v_expected))

C8_Witness ==
    /\ v_result = "False" /\ v_expected = 2
    /\ stdout = <<"Pages", ":", "1", "\n", "Pages", ":", "2">>
====
